---------------------------- MODULE Spec2Model ----------------------------
(***************************************************************************)
(* ABCU CS Advising Assistant (src/final.cpp).                             *)
(*                                                                         *)
(* A std::string is a sequence of one-character strings, so that trim,     *)
(* toUpper and parseCSVLine work on characters as the code does.           *)
(* The catalog std::map<std::string, Course> is a function whose DOMAIN    *)
(* is the set of keys.                                                     *)
(***************************************************************************)
EXTENDS Integers, Sequences, FiniteSets, TLC

(* ------------------------------ bounds -------------------------------- *)

\* Most lines one load reads before the input file ends.
MaxLines == 2

\* Longest line the parser specification enumerates.
MaxLineLen == 5

(* ---------------------------- characters ------------------------------ *)

\* std::isspace in the "C" locale (0x0B, \v, has no TLA+ escape and occurs in no input here)
isspace(ch) == ch \in {" ", "\t", "\n", "\f", "\r"}

\* std::isdigit
isdigit(ch) == ch \in {"0", "1", "2", "3", "4", "5", "6", "7", "8", "9"}

Lower == <<"a", "b", "c", "d", "e", "f", "g", "h", "i", "j", "k", "l", "m",
           "n", "o", "p", "q", "r", "s", "t", "u", "v", "w", "x", "y", "z">>
Upper == <<"A", "B", "C", "D", "E", "F", "G", "H", "I", "J", "K", "L", "M",
           "N", "O", "P", "Q", "R", "S", "T", "U", "V", "W", "X", "Y", "Z">>

\* std::toupper on one character
toupperChar(c) ==
    IF \E i \in 1..Len(Lower) : Lower[i] = c
    THEN Upper[CHOOSE i \in 1..Len(Lower) : Lower[i] = c]
    ELSE c

\* The characters of the inputs, in ascending order of their byte value.
ByteOrder == <<"\t", "\n", "\f", "\r", " ", "\"", ",",
               "0", "1", "2", "3", "4", "5", "6", "7", "8", "9">>
             \o Upper \o Lower

CharCode(c) == CHOOSE i \in 1..Len(ByteOrder) : ByteOrder[i] = c

\* std::string operator< : lexicographic comparison by byte value
RECURSIVE StrLess(_, _)
StrLess(s, t) ==
    IF t = <<>> THEN FALSE
    ELSE IF s = <<>> THEN TRUE
    ELSE IF Head(s) # Head(t) THEN CharCode(Head(s)) < CharCode(Head(t))
    ELSE StrLess(Tail(s), Tail(t))

(* ------------------------- trim and toUpper --------------------------- *)

\* first loop of trim: the number of leading whitespace characters
RECURSIVE TrimStart(_, _)
TrimStart(s, start) ==
    IF start < Len(s) /\ isspace(s[start + 1])
    THEN TrimStart(s, start + 1)
    ELSE start

\* second loop of trim: one past the last non-whitespace character
RECURSIVE TrimEnd(_, _, _)
TrimEnd(s, start, end) ==
    IF end > start /\ isspace(s[end])
    THEN TrimEnd(s, start, end - 1)
    ELSE end

trim(s) ==
    LET start == TrimStart(s, 0)
        end   == TrimEnd(s, start, Len(s))
    IN  SubSeq(s, start + 1, end)

RECURSIVE toUpper(_)
toUpper(s) ==
    IF s = <<>> THEN <<>>
    ELSE <<toupperChar(Head(s))>> \o toUpper(Tail(s))

(* --------------------------- parseCSVLine ----------------------------- *)

\* ParseLoop without the doubled-quote test: inside quotes every quote closes.
RECURSIVE ParseLoopNoEscape(_, _, _, _, _)
ParseLoopNoEscape(line, i, field, fields, inQuotes) ==
    IF i > Len(line) THEN Append(fields, field)
    ELSE LET ch == line[i] IN
         IF ch = "\""
         THEN ParseLoopNoEscape(line, i + 1, field, fields, ~inQuotes)
         ELSE IF ch = "," /\ ~inQuotes
              THEN ParseLoopNoEscape(line, i + 1, <<>>, Append(fields, field), FALSE)
              ELSE ParseLoopNoEscape(line, i + 1, Append(field, ch), fields, inQuotes)

\* The character loop of parseCSVLine, at index i (1-based here) with the
\* locals field, fields and inQuotes; its value is fields after the final
\* fields.push_back(field).
RECURSIVE ParseLoop(_, _, _, _, _)
ParseLoop(line, i, field, fields, inQuotes) ==
    IF i > Len(line) THEN Append(fields, field)
    ELSE LET ch == line[i] IN
         IF inQuotes
         THEN IF ch = "\""
              THEN IF i + 1 <= Len(line) /\ line[i + 1] = "\""
                   THEN ParseLoop(line, i + 2, Append(field, "\""), fields, TRUE)
                   ELSE ParseLoop(line, i + 1, field, fields, FALSE)
              ELSE ParseLoop(line, i + 1, Append(field, ch), fields, TRUE)
         ELSE IF ch = "\""
              THEN ParseLoop(line, i + 1, field, fields, TRUE)
              ELSE IF ch = ","
                   THEN ParseLoop(line, i + 1, <<>>, Append(fields, field), FALSE)
                   ELSE ParseLoop(line, i + 1, Append(field, ch), fields, FALSE)

\* the closing loop of parseCSVLine: f = trim(f) for every field
RECURSIVE TrimFields(_)
TrimFields(fields) ==
    IF fields = <<>> THEN <<>>
    ELSE <<trim(Head(fields))>> \o TrimFields(Tail(fields))

parseCSVLine(line) == TrimFields(ParseLoop(line, 1, <<>>, <<>>, FALSE))

(* ------------------------- loadCoursesFromFile ------------------------ *)

\* struct Course, default-constructed
NewCourse == [id |-> <<>>, title |-> <<>>, prereqs |-> <<>>]

\* an empty std::map<std::string, Course>
EmptyCatalog == [k \in {} |-> NewCourse]

\* One entry of the warnings vector. The message text is kept as its parts:
\* the line number it names, which of the three messages it is, and the
\* course id the "empty title" message ends with (empty for the other two).
Warning(lineNum, kind, id) == [line |-> lineNum, kind |-> kind, id |-> id]

\* courses[id]: std::map::operator[] inserts a default Course when id is absent
Subscript(courses, id) ==
    IF id \in DOMAIN courses THEN courses ELSE courses @@ (id :> NewCourse)

\* SetTitle without the test: an empty title overwrites a known one.
SetTitleAlways(course, title) == [course EXCEPT !.title = title]

\* if (!title.empty()) course.title = title;
SetTitle(course, title) ==
    IF title # <<>> THEN [course EXCEPT !.title = title] ELSE course

\* EnsurePlaceholder that creates nothing.
NoPlaceholder(courses, prereqId) == courses

\* if (courses.find(prereqId) == courses.end()) courses[prereqId] = placeholder;
EnsurePlaceholder(courses, prereqId) ==
    IF prereqId \notin DOMAIN courses
    THEN courses @@ (prereqId :> [id |-> prereqId, title |-> <<>>, prereqs |-> <<>>])
    ELSE courses

\* AddPrereqs that stores the prerequisite ids without toUpper.
RECURSIVE AddPrereqsNoUpper(_, _, _, _)
AddPrereqsNoUpper(courses, id, fields, i) ==
    IF i > Len(fields) THEN courses
    ELSE LET prereqId == trim(fields[i]) IN
         IF prereqId = <<>>
         THEN AddPrereqsNoUpper(courses, id, fields, i + 1)
         ELSE AddPrereqsNoUpper(
                EnsurePlaceholder(
                  [courses EXCEPT ![id].prereqs = Append(@, prereqId)], prereqId),
                id, fields, i + 1)

\* the prerequisite loop over fields[2..] (fields[i] with i >= 3, 1-based here)
RECURSIVE AddPrereqs(_, _, _, _)
AddPrereqs(courses, id, fields, i) ==
    IF i > Len(fields) THEN courses
    ELSE LET prereqId == toUpper(trim(fields[i])) IN
         IF prereqId = <<>>
         THEN AddPrereqs(courses, id, fields, i + 1)
         ELSE AddPrereqs(
                EnsurePlaceholder(
                  [courses EXCEPT ![id].prereqs = Append(@, prereqId)], prereqId),
                id, fields, i + 1)

\* CountLine placed after the blank-line test: blank lines are not counted.
CountLineSkippingBlank(st, line) ==
    IF trim(line) = <<>> THEN st ELSE [st EXCEPT !.lineNum = @ + 1]

\* ++lineNum, first statement of the loop body, for the line just read
CountLine(st, line) == [st EXCEPT !.lineNum = @ + 1]

\* The loop body after ++lineNum. st holds the catalog, the warnings and
\* lineNum; the value is st after the iteration.
LineBody(st, line) ==
    LET lineNum == st.lineNum
        trimmed == trim(line)
        fields  == parseCSVLine(line)
        id      == toUpper(trim(fields[1]))
        title   == fields[2]
        warned  == IF title = <<>>
                   THEN Append(st.warnings, Warning(lineNum, "empty title", id))
                   ELSE st.warnings
        created == Subscript(st.courses, id)
        course  == SetTitle([created[id] EXCEPT !.id = id], title)
    IN  IF trimmed = <<>>
        THEN st
        ELSE IF Len(fields) < 2
        THEN [st EXCEPT !.warnings = Append(@, Warning(lineNum, "fewer than 2 fields", <<>>))]
        ELSE IF id = <<>>
        THEN [st EXCEPT !.warnings = Append(@, Warning(lineNum, "empty course ID", <<>>))]
        ELSE [courses  |-> AddPrereqs([created EXCEPT ![id] = course], id, fields, 3),
              warnings |-> warned,
              lineNum  |-> lineNum]

\* one iteration of the while (std::getline(in, line)) loop
ProcessLine(st, line) == LineBody(CountLine(st, line), line)

\* LoadStart without courses.clear(): the new file is merged into the old catalog.
LoadStartNoClear(catalog) == [courses |-> catalog, warnings |-> <<>>, lineNum |-> 0]

\* the state loadCoursesFromFile enters its loop with, given the caller's
\* catalog: courses.clear(); warnings.clear(); lineNum = 0
LoadStart(catalog) == [courses |-> EmptyCatalog, warnings |-> <<>>, lineNum |-> 0]

\* the whole loop, over the lines the file holds
RECURSIVE LoadLoop(_, _)
LoadLoop(st, lines) ==
    IF lines = <<>> THEN st
    ELSE LoadLoop(ProcessLine(st, Head(lines)), Tail(lines))

(* ---------------------------- the queries ----------------------------- *)

\* What one menu step displays: the kind of message and the data in it.
\* input is the line the step read at the course ID prompt, empty otherwise.
Display(kind, id, title, rows) ==
    [kind |-> kind, id |-> id, title |-> title, rows |-> rows, input |-> <<>>]

\* insertion of one id into an ascending vector
RECURSIVE InsertSorted(_, _)
InsertSorted(x, sorted) ==
    IF sorted = <<>> THEN <<x>>
    ELSE IF StrLess(Head(sorted), x)
         THEN <<Head(sorted)>> \o InsertSorted(x, Tail(sorted))
         ELSE <<x>> \o sorted

\* Sort with the comparison reversed: descending order.
RECURSIVE SortDescending(_)
SortDescending(ids) ==
    IF ids = <<>> THEN <<>>
    ELSE LET rest == SortDescending(Tail(ids))
             k    == Cardinality({j \in 1..Len(rest) : StrLess(Head(ids), rest[j])})
         IN  SubSeq(rest, 1, k) \o <<Head(ids)>> \o SubSeq(rest, k + 1, Len(rest))

\* std::sort(ids.begin(), ids.end())
RECURSIVE Sort(_)
Sort(ids) ==
    IF ids = <<>> THEN <<>> ELSE InsertSorted(Head(ids), Sort(Tail(ids)))

\* for (const auto& kv : courses): the keys in the map's iteration order
RECURSIVE MapOrder(_)
MapOrder(keys) ==
    IF keys = {} THEN <<>>
    ELSE LET k == CHOOSE x \in keys : \A y \in keys : y = x \/ StrLess(x, y)
         IN  <<k>> \o MapOrder(keys \ {k})

\* TitledIds without the title test: placeholders are listed too.
RECURSIVE AllIds(_, _)
AllIds(courses, order) ==
    IF order = <<>> THEN <<>>
    ELSE <<courses[Head(order)].id>> \o AllIds(courses, Tail(order))

\* if (!c.title.empty()) ids.push_back(c.id);
RECURSIVE TitledIds(_, _)
TitledIds(courses, order) ==
    IF order = <<>> THEN <<>>
    ELSE LET c == courses[Head(order)] IN
         IF c.title # <<>>
         THEN <<c.id>> \o TitledIds(courses, Tail(order))
         ELSE TitledIds(courses, Tail(order))

\* the rows printSortedCourseList prints: id, ", ", courses.at(id).title
RECURSIVE ListRows(_, _)
ListRows(courses, ids) ==
    IF ids = <<>> THEN <<>>
    ELSE <<[id |-> Head(ids), title |-> courses[Head(ids)].title]>>
         \o ListRows(courses, Tail(ids))

printSortedCourseList(courses) ==
    Display("list", <<>>, <<>>,
            ListRows(courses, Sort(TitledIds(courses, MapOrder(DOMAIN courses)))))

\* the prerequisite lines printCourseInfo prints
RECURSIVE PrereqRows(_, _)
PrereqRows(courses, prereqs) ==
    IF prereqs = <<>> THEN <<>>
    ELSE LET pid == Head(prereqs) IN
         (IF pid \in DOMAIN courses /\ courses[pid].title # <<>>
          THEN <<[id |-> courses[pid].id, title |-> courses[pid].title, known |-> TRUE]>>
          ELSE <<[id |-> pid, title |-> <<>>, known |-> FALSE]>>)
         \o PrereqRows(courses, Tail(prereqs))

printCourseInfo(courses, queryRaw) ==
    LET query == toUpper(trim(queryRaw)) IN
    IF query = <<>> THEN Display("empty course ID", <<>>, <<>>, <<>>)
    ELSE IF query \notin DOMAIN courses \/ courses[query].title = <<>>
    THEN Display("not found", query, <<>>, <<>>)
    ELSE LET c == courses[query] IN
         Display("course", c.id, c.title, PrereqRows(courses, c.prereqs))

(* ------------------------------- inputs ------------------------------- *)

\* Lines std::getline may deliver from the input file:
LineTitled       == <<"a", ",", "T">>                                  \*  a,T
LineTwoPrereqs   == <<"A", ",", "U", ",", " ", "b", " ", ",", "b">>    \*  A,U, b ,b
LineNoTitle      == <<"a", ",", ",", "b">>                             \*  a,,b
LineQuoted       == <<"b", ",", "\"", "T", ",", "U", "\"", ",", "a", ",", ",", "b">>
                                                                       \*  b,"T,U",a,,b
LineBlank        == <<" ">>
LineOneField     == <<"a">>                                            \*  a
LineNoId         == <<",", "T">>                                       \*  ,T

SampleLines ==
    { LineTitled, LineTwoPrereqs, LineNoTitle, LineQuoted, LineBlank,
      LineOneField, LineNoId }

\* Lines std::getline may deliver from std::cin at the menu prompt.
ChoiceLines ==
    { <<"1">>, <<"2">>, <<"3">>, <<"9">>, <<>>, <<" ">>, <<"x">>, <<"7">>,
      <<" ", "2", "\r">>, <<"0", "3">> }

\* Lines std::cin may deliver at the file name prompt.
FileNames == { <<>>, <<" ">>, <<"f">> }

\* Lines std::cin may deliver at the course ID prompt.
Queries == { <<"a">>, <<"A">>, <<" ", "b", "\r">>, <<"c">>, <<>>, <<" ">> }

(* ------------------------------- main --------------------------------- *)

VARIABLES
    courses,      \* main: std::map<std::string, Course> courses
    dataLoaded,   \* main: bool dataLoaded
    pc,           \* where main is: "menu", "loading" (inside loadCoursesFromFile's loop), "exited"
    warnings,     \* the warnings vector of the load in progress
    lineNum,      \* loadCoursesFromFile: size_t lineNum
    out,          \* what the last menu step displayed
    fileLines,    \* history: the lines the last opened file has delivered
    lastLoad,     \* history: how the last call of loadCoursesFromFile returned
    reloaded,     \* history: the last opened file was loaded over a non-empty catalog
    parseInput,   \* the line handed to parseCSVLine (parser specification)
    parseOutput   \* the fields it returned, <<>> before the call

vars == <<courses, dataLoaded, pc, warnings, lineNum, out, fileLines, lastLoad, reloaded,
          parseInput, parseOutput>>

loadVars == <<courses, dataLoaded, pc, warnings, lineNum, out, fileLines, lastLoad,
              reloaded>>

\* safeGetline's CRLF handling: a trailing '\r' is dropped
safeGetline(s) ==
    IF s # <<>> /\ s[Len(s)] = "\r" THEN SubSeq(s, 1, Len(s) - 1) ELSE s

\* the numeric check of main: every character of choiceLine is a digit
IsNumeric(choiceLine) == \A i \in 1..Len(choiceLine) : isdigit(choiceLine[i])

\* std::stoi on a string of digits
RECURSIVE stoi(_)
stoi(s) ==
    IF s = <<>> THEN 0
    ELSE 10 * stoi(SubSeq(s, 1, Len(s) - 1)) + (CharCode(s[Len(s)]) - CharCode("0"))

\* choiceLine = trim(choiceLine) after safeGetline
ChoiceLine(raw) == trim(safeGetline(raw))

\* the menu choice is the number n
Chose(raw, n) ==
    /\ ChoiceLine(raw) # <<>>
    /\ IsNumeric(ChoiceLine(raw))
    /\ stoi(ChoiceLine(raw)) = n

Init ==
    /\ courses = EmptyCatalog
    /\ dataLoaded = FALSE
    /\ pc = "menu"
    /\ warnings = <<>>
    /\ lineNum = 0
    /\ out = Display("none", <<>>, <<>>, <<>>)
    /\ fileLines = <<>>
    /\ lastLoad = "none"
    /\ reloaded = FALSE
    /\ parseInput = <<>>
    /\ parseOutput = <<>>

\* safeGetline returns false (at the menu, the file name or the course ID prompt)
InputClosed ==
    /\ pc = "menu"
    /\ pc' = "exited"
    /\ out' = Display("input closed", <<>>, <<>>, <<>>)
    /\ UNCHANGED <<courses, dataLoaded, warnings, lineNum, fileLines, lastLoad,
                   reloaded, parseInput, parseOutput>>

\* the choice line is empty after trimming
EmptyChoice ==
    /\ pc = "menu"
    /\ \E raw \in ChoiceLines : ChoiceLine(raw) = <<>>
    /\ out' = Display("enter a menu option", <<>>, <<>>, <<>>)
    /\ UNCHANGED <<courses, dataLoaded, pc, warnings, lineNum, fileLines, lastLoad,
                   reloaded, parseInput, parseOutput>>

\* the choice line is not a number, or a number other than 1, 2, 3 and 9
InvalidOption ==
    /\ pc = "menu"
    /\ \E raw \in ChoiceLines :
          /\ ChoiceLine(raw) # <<>>
          /\ \/ ~IsNumeric(ChoiceLine(raw))
             \/ stoi(ChoiceLine(raw)) \notin {1, 2, 3, 9}
    /\ out' = Display("invalid option", <<>>, <<>>, <<>>)
    /\ UNCHANGED <<courses, dataLoaded, pc, warnings, lineNum, fileLines, lastLoad,
                   reloaded, parseInput, parseOutput>>

\* choice 1, and the file name is empty after trimming
EmptyFileName ==
    /\ pc = "menu"
    /\ \E raw \in ChoiceLines : Chose(raw, 1)
    /\ \E filename \in FileNames : trim(safeGetline(filename)) = <<>>
    /\ out' = Display("file name cannot be empty", <<>>, <<>>, <<>>)
    /\ UNCHANGED <<courses, dataLoaded, pc, warnings, lineNum, fileLines, lastLoad,
                   reloaded, parseInput, parseOutput>>

\* LoadFail in which the failed load empties the catalog.
LoadFailClears ==
    /\ pc = "menu"
    /\ \E raw \in ChoiceLines : Chose(raw, 1)
    /\ \E filename \in FileNames : trim(safeGetline(filename)) # <<>>
    /\ courses' = EmptyCatalog
    /\ dataLoaded' = FALSE
    /\ lastLoad' = "failed"
    /\ out' = Display("could not open file", <<>>, <<>>, <<>>)
    /\ UNCHANGED <<pc, warnings, lineNum, fileLines, reloaded, parseInput, parseOutput>>

\* LoadFail in which main leaves dataLoaded as it was.
LoadFailKeepsFlag ==
    /\ pc = "menu"
    /\ \E raw \in ChoiceLines : Chose(raw, 1)
    /\ \E filename \in FileNames : trim(safeGetline(filename)) # <<>>
    /\ lastLoad' = "failed"
    /\ out' = Display("could not open file", <<>>, <<>>, <<>>)
    /\ UNCHANGED <<courses, dataLoaded, pc, warnings, lineNum, fileLines, reloaded,
                   parseInput, parseOutput>>

\* choice 1, and loadCoursesFromFile cannot open the file: it returns false
\* before it touches courses, and main clears dataLoaded
LoadFail ==
    /\ pc = "menu"
    /\ \E raw \in ChoiceLines : Chose(raw, 1)
    /\ \E filename \in FileNames : trim(safeGetline(filename)) # <<>>
    /\ dataLoaded' = FALSE
    /\ lastLoad' = "failed"
    /\ out' = Display("could not open file", <<>>, <<>>, <<>>)
    /\ UNCHANGED <<courses, pc, warnings, lineNum, fileLines, reloaded, parseInput, parseOutput>>

\* choice 1, and loadCoursesFromFile opens the file
LoadOpen ==
    /\ pc = "menu"
    /\ \E raw \in ChoiceLines : Chose(raw, 1)
    /\ \E filename \in FileNames : trim(safeGetline(filename)) # <<>>
    /\ courses' = LoadStart(courses).courses
    /\ warnings' = LoadStart(courses).warnings
    /\ lineNum' = LoadStart(courses).lineNum
    /\ pc' = "loading"
    /\ fileLines' = <<>>
    /\ reloaded' = (courses # EmptyCatalog)
    /\ out' = Display("loading", <<>>, <<>>, <<>>)
    /\ UNCHANGED <<dataLoaded, lastLoad, parseInput, parseOutput>>

\* std::getline(in, line) delivers a line: one iteration of the loop
LoadLine ==
    /\ pc = "loading"
    /\ Len(fileLines) < MaxLines
    /\ \E line \in SampleLines :
          LET st == ProcessLine([courses |-> courses, warnings |-> warnings,
                                 lineNum |-> lineNum], line)
          IN  /\ courses' = st.courses
              /\ warnings' = st.warnings
              /\ lineNum' = st.lineNum
              /\ fileLines' = Append(fileLines, line)
    /\ UNCHANGED <<dataLoaded, pc, out, lastLoad, reloaded, parseInput, parseOutput>>

\* std::getline(in, line) fails: loadCoursesFromFile returns true, main sets
\* dataLoaded and prints the warnings, which then go out of scope
LoadEOF ==
    /\ pc = "loading"
    /\ dataLoaded' = TRUE
    /\ lastLoad' = "ok"
    /\ out' = Display("loaded", <<>>, <<>>, warnings)
    /\ warnings' = <<>>
    /\ lineNum' = 0
    /\ pc' = "menu"
    /\ UNCHANGED <<courses, fileLines, reloaded, parseInput, parseOutput>>

\* choice 2 or 3 before any data is loaded
NotLoaded ==
    /\ pc = "menu"
    /\ \E raw \in ChoiceLines : Chose(raw, 2) \/ Chose(raw, 3)
    /\ ~dataLoaded
    /\ out' = Display("load data first", <<>>, <<>>, <<>>)
    /\ UNCHANGED <<courses, dataLoaded, pc, warnings, lineNum, fileLines, lastLoad,
                   reloaded, parseInput, parseOutput>>

\* choice 2
PrintList ==
    /\ pc = "menu"
    /\ \E raw \in ChoiceLines : Chose(raw, 2)
    /\ dataLoaded
    /\ out' = printSortedCourseList(courses)
    /\ UNCHANGED <<courses, dataLoaded, pc, warnings, lineNum, fileLines, lastLoad,
                   reloaded, parseInput, parseOutput>>

\* choice 3
PrintCourse ==
    /\ pc = "menu"
    /\ \E raw \in ChoiceLines : Chose(raw, 3)
    /\ dataLoaded
    /\ \E query \in Queries :
          out' = [printCourseInfo(courses, safeGetline(query)) EXCEPT !.input = query]
    /\ UNCHANGED <<courses, dataLoaded, pc, warnings, lineNum, fileLines, lastLoad,
                   reloaded, parseInput, parseOutput>>

\* choice 9
Exit ==
    /\ pc = "menu"
    /\ \E raw \in ChoiceLines : Chose(raw, 9)
    /\ pc' = "exited"
    /\ out' = Display("goodbye", <<>>, <<>>, <<>>)
    /\ UNCHANGED <<courses, dataLoaded, warnings, lineNum, fileLines, lastLoad,
                   reloaded, parseInput, parseOutput>>

Next ==
    \/ InputClosed
    \/ EmptyChoice
    \/ InvalidOption
    \/ EmptyFileName
    \/ LoadFail
    \/ LoadOpen
    \/ LoadLine
    \/ LoadEOF
    \/ NotLoaded
    \/ PrintList
    \/ PrintCourse
    \/ Exit

Spec == Init /\ [][Next]_vars

(* ----------------------- parser specification ------------------------- *)

ParseAlphabet == {"a", " ", ",", "\""}

\*   a,"b,c",d
Example1 == <<"a", ",", "\"", "b", ",", "c", "\"", ",", "d">>
\*   a,"b""c",d
Example2 == <<"a", ",", "\"", "b", "\"", "\"", "c", "\"", ",", "d">>

ParseInputs ==
    UNION { [1..n -> ParseAlphabet] : n \in 0..MaxLineLen } \cup {Example1, Example2}

ParseInit ==
    /\ courses = EmptyCatalog
    /\ dataLoaded = FALSE
    /\ pc = "menu"
    /\ warnings = <<>>
    /\ lineNum = 0
    /\ out = Display("none", <<>>, <<>>, <<>>)
    /\ fileLines = <<>>
    /\ lastLoad = "none"
    /\ reloaded = FALSE
    /\ parseInput \in ParseInputs
    /\ parseOutput = <<>>

ParseCall ==
    /\ parseOutput = <<>>
    /\ parseOutput' = parseCSVLine(parseInput)
    /\ UNCHANGED <<loadVars, parseInput>>

ParseSpec == ParseInit /\ [][ParseCall]_vars

(* ------------------------------ C7 ------------------------------------ *)

\* How the claim reads a line, position by position. QuoteMode(L)[k] is the
\* region the reader is in after the first k characters: "out" (outside a
\* quoted region), "in" (inside one) or "pair" (inside one, having read the
\* first quote of a doubled quote).
QuoteMode(L) ==
    LET mode[k \in 0..Len(L)] ==
          IF k = 0 THEN "out"
          ELSE IF mode[k - 1] = "pair" THEN "in"
          ELSE IF L[k] # "\"" THEN mode[k - 1]
          ELSE IF mode[k - 1] = "out" THEN "in"
          ELSE IF k < Len(L) /\ L[k + 1] = "\"" THEN "pair"
          ELSE "out"
    IN  mode

\* the commas outside quoted regions
Separators(L) == {k \in 1..Len(L) : L[k] = "," /\ QuoteMode(L)[k - 1] = "out"}

\* Character k is field content: not a separator, not an opening or closing
\* quote, and of a doubled quote only the first.
IsContent(L, k) ==
    /\ k \notin Separators(L)
    /\ L[k] = "\"" => QuoteMode(L)[k] = "pair"

RECURSIVE ContentOf(_, _, _)
ContentOf(L, lo, hi) ==
    IF lo > hi THEN <<>>
    ELSE (IF IsContent(L, lo) THEN <<L[lo]>> ELSE <<>>) \o ContentOf(L, lo + 1, hi)

\* the position of the j-th separator; 0 for j = 0, Len(L) + 1 past the last
SeparatorAt(L, j) ==
    IF j = 0 THEN 0
    ELSE IF j > Cardinality(Separators(L)) THEN Len(L) + 1
    ELSE CHOOSE k \in Separators(L) :
            Cardinality({s \in Separators(L) : s < k}) = j - 1

NoOuterSpace(f) == f = <<>> \/ (~isspace(f[1]) /\ ~isspace(f[Len(f)]))

ParsedAsClaimed(L, fields) ==
    /\ Len(fields) = Cardinality(Separators(L)) + 1
    /\ \A j \in 1..Len(fields) :
          /\ fields[j] = trim(ContentOf(L, SeparatorAt(L, j - 1) + 1,
                                           SeparatorAt(L, j) - 1))
          /\ NoOuterSpace(fields[j])

\* C7: parseLine returns one more field than there are commas outside quoted
\* regions (the empty line yields one empty field); each field is the trimmed
\* content between two such commas, where a comma inside a quoted region is
\* content, opening and closing quotes are dropped, a doubled quote inside a
\* quoted region is one literal quote, and an unterminated region runs to the
\* end of the line; no field starts or ends with whitespace; the two example
\* lines yield [a | b,c | d] and [a | b"c | d].
C7_ParseLine ==
    parseOutput # <<>> =>
        /\ ParsedAsClaimed(parseInput, parseOutput)
        /\ parseInput = <<>> => parseOutput = << <<>> >>
        /\ parseInput = Example1 =>
              parseOutput = << <<"a">>, <<"b", ",", "c">>, <<"d">> >>
        /\ parseInput = Example2 =>
              parseOutput = << <<"a">>, <<"b", "\"", "c">>, <<"d">> >>

\* C7 witness: a line with a doubled quote inside a quoted region, parsed
C7_Witness ==
    /\ parseInput = Example2
    /\ parseOutput = << <<"a">>, <<"b", "\"", "c">>, <<"d">> >>

\* C7 witness of an unterminated quoted region holding a comma and a space
C7_WitnessUnterminated ==
    /\ parseInput = <<"a", ",", "\"", ",", " ">>
    /\ parseOutput = << <<"a">>, <<",">> >>

(* ------------------- the loaded file, as the claims read it ----------- *)

\* the line has at least 2 fields and a non-empty first field
RecordLine(line) ==
    /\ Len(parseCSVLine(line)) >= 2
    /\ parseCSVLine(line)[1] # <<>>

LineId(line) == toUpper(parseCSVLine(line)[1])

LineTitle(line) == parseCSVLine(line)[2]

\* the non-empty fields among fields[i..], uppercased, in order
RECURSIVE NonEmptyUpper(_, _)
NonEmptyUpper(fields, i) ==
    IF i > Len(fields) THEN <<>>
    ELSE (IF fields[i] = <<>> THEN <<>> ELSE <<toUpper(fields[i])>>)
         \o NonEmptyUpper(fields, i + 1)

LinePrereqs(line) == NonEmptyUpper(parseCSVLine(line), 3)

\* the lines of the file that are record lines for identifier id
LinesOf(id) ==
    {i \in 1..Len(fileLines) : RecordLine(fileLines[i]) /\ LineId(fileLines[i]) = id}

\* some line of the file gives id a non-empty title
DefinedInFile(id) == \E i \in LinesOf(id) : LineTitle(fileLines[i]) # <<>>

\* some record line of the file for course c lists p as a prerequisite
ListsInFile(c, p) ==
    \E i \in LinesOf(c) :
       \E k \in 1..Len(LinePrereqs(fileLines[i])) : LinePrereqs(fileLines[i])[k] = p

\* the identifiers a file over SampleLines can mention
FileIds ==
    UNION { {LineId(l)} \cup {LinePrereqs(l)[k] : k \in 1..Len(LinePrereqs(l))} :
            l \in {x \in SampleLines : RecordLine(x)} }

\* the last menu step was describe(q), with q normalising to id
Describes(id) ==
    /\ out.kind \in {"course", "not found", "empty course ID"}
    /\ toUpper(trim(safeGetline(out.input))) = id

RowIds(rows) == [k \in 1..Len(rows) |-> rows[k].id]

(* ------------------------------ C1 ------------------------------------ *)

\* C1: in every state, whatever loads were attempted, every identifier in the
\* prerequisite sequence of a catalog entry is a key of the catalog (with a
\* title or as a placeholder), self-references and never-defined
\* prerequisites included.
C1_PrereqsAreKeys ==
    \A k \in DOMAIN courses :
       \A i \in 1..Len(courses[k].prereqs) :
          /\ courses[k].prereqs[i] \in DOMAIN courses
          /\ courses[courses[k].prereqs[i]].id = courses[k].prereqs[i]

\* C1 witness: after b,"T,U",a,,b was loaded and a later load failed, B lists
\* itself and A, and A, which has no line of its own, is a placeholder.
C1_Witness ==
    /\ lastLoad = "failed"
    /\ fileLines = <<LineQuoted>>
    /\ courses[<<"B">>].prereqs = << <<"A">>, <<"B">> >>
    /\ courses[<<"A">>].title = <<>>
    /\ courses[<<"B">>].title = <<"T", ",", "U">>

(* ------------------------------ C2 ------------------------------------ *)

\* C2 as claimed: for every line with at least 2 fields and a non-empty first
\* field, describe of its identifier returns the line's title and prerequisites.
C2_Original ==
    \A i \in 1..Len(fileLines) :
       (RecordLine(fileLines[i]) /\ Describes(LineId(fileLines[i]))) =>
          /\ out.kind = "course"
          /\ out.id = LineId(fileLines[i])
          /\ out.title = LineTitle(fileLines[i])
          /\ RowIds(out.rows) = LinePrereqs(fileLines[i])

\* C2 amended: for every line with at least 2 fields, a non-empty first field
\* and a non-empty second field, whose identifier is the first field of no
\* other line with at least 2 fields, load followed by describe of that
\* identifier in any letter case returns the uppercased first field, the
\* line's second field as title, and as prerequisites the line's non-empty
\* fields of index >= 2, uppercased, in file order with duplicates kept.
C2_DescribeMatchesLine ==
    \A i \in 1..Len(fileLines) :
       ( /\ RecordLine(fileLines[i])
         /\ LineTitle(fileLines[i]) # <<>>
         /\ LinesOf(LineId(fileLines[i])) = {i}
         /\ Describes(LineId(fileLines[i])) ) =>
          /\ out.kind = "course"
          /\ out.id = LineId(fileLines[i])
          /\ out.title = LineTitle(fileLines[i])
          /\ RowIds(out.rows) = LinePrereqs(fileLines[i])

\* C2 witness: A,U, b ,b and b,"T,U",a,,b loaded, then describe("a")
C2_Witness ==
    /\ fileLines = <<LineTwoPrereqs, LineQuoted>>
    /\ out.input = <<"a">>
    /\ out.kind = "course"
    /\ out.id = <<"A">>
    /\ out.title = <<"U">>
    /\ RowIds(out.rows) = << <<"B">>, <<"B">> >>

\* C2 restricted to lines with a non-empty title only: still violated, by a
\* file in which two lines share an identifier.
C2_OriginalTitled ==
    \A i \in 1..Len(fileLines) :
       ( /\ RecordLine(fileLines[i])
         /\ LineTitle(fileLines[i]) # <<>>
         /\ Describes(LineId(fileLines[i])) ) =>
          /\ out.kind = "course"
          /\ out.id = LineId(fileLines[i])
          /\ out.title = LineTitle(fileLines[i])
          /\ RowIds(out.rows) = LinePrereqs(fileLines[i])

(* ------------------------------ C3 ------------------------------------ *)

\* C3: a load whose file cannot be opened reports failure, leaves every
\* catalog entry as it was and leaves dataLoaded false.
C3_FailedLoad ==
    [][out'.kind = "could not open file" =>
          (courses' = courses /\ dataLoaded' = FALSE /\ lastLoad' = "failed")]_vars

\* C3 witness: a failed load after a file was loaded; the entries are still there
C3_Witness ==
    /\ out.kind = "could not open file"
    /\ fileLines = <<LineTwoPrereqs>>
    /\ DOMAIN courses = { <<"A">>, <<"B">> }
    /\ courses[<<"A">>].title = <<"U">>
    /\ ~dataLoaded

(* ------------------------------ C4 ------------------------------------ *)

\* what loading a file with these lines into an empty catalog yields
FreshLoad(lines) ==
    LoadLoop([courses |-> EmptyCatalog, warnings |-> <<>>, lineNum |-> 0], lines)

\* C4: the catalog and the warnings of a load are those of loading the same
\* lines into an empty catalog, whatever the catalog held before; so loading
\* a file again, or after another file, yields what loading it once yields.
C4_LoadDependsOnFileOnly ==
    /\ courses = FreshLoad(fileLines).courses
    /\ pc = "loading" => warnings = FreshLoad(fileLines).warnings
    /\ out.kind = "loaded" => out.rows = FreshLoad(fileLines).warnings

\* C4 witness: a,T loaded over a non-empty catalog
C4_Witness ==
    /\ reloaded
    /\ out.kind = "loaded"
    /\ fileLines = <<LineTitled>>
    /\ DOMAIN courses = { <<"A">> }
    /\ courses[<<"A">>] = [id |-> <<"A">>, title |-> <<"T">>, prereqs |-> <<>>]

(* ------------------------------ C5 ------------------------------------ *)

\* what C5 says of a prerequisite p that course c lists; describeC is what it
\* says of describe(c)
UndefinedPrereq(c, p, describeC) ==
    (ListsInFile(c, p) /\ ~DefinedInFile(p)) =>
       /\ p \in DOMAIN courses
       /\ courses[p].title = <<>>
       /\ out.kind = "list" => \A k \in 1..Len(out.rows) : out.rows[k].id # p
       /\ Describes(p) => (out.kind = "not found" /\ out.id = p)
       /\ Describes(c) => describeC

\* describe(c) shows p as "title unknown" wherever c's prerequisites hold p
ShowsUnknown(c, p) ==
    /\ out.kind = "course"
    /\ Len(out.rows) = Len(courses[c].prereqs)
    /\ \E k \in 1..Len(out.rows) : courses[c].prereqs[k] = p
    /\ \A k \in 1..Len(out.rows) :
          courses[c].prereqs[k] = p =>
             out.rows[k] = [id |-> p, title |-> <<>>, known |-> FALSE]

\* describe of an identifier that is no key of the catalog reports not-found
AbsentNotFound ==
    (out.kind \in {"course", "not found"}
       /\ toUpper(trim(safeGetline(out.input))) \notin DOMAIN courses)
    => out.kind = "not found"

\* C5 as claimed: describe(C) reports P as "title unknown" for every course C
\* that lists P.
C5_Original ==
    \A c \in FileIds : \A p \in FileIds : UndefinedPrereq(c, p, ShowsUnknown(c, p))

\* C5 amended: when course C lists a prerequisite P that no line gives a
\* non-empty title, P is a catalog entry with empty title, listSorted leaves P
\* out, describe(P) reports not-found as it does for an absent identifier,
\* and describe(C), provided some line gives C a non-empty title, reports P
\* at its positions in C's prerequisite sequence as "title unknown".
C5_UndefinedPrereq ==
    /\ AbsentNotFound
    /\ \A c \in FileIds : \A p \in FileIds :
          UndefinedPrereq(c, p, DefinedInFile(c) => ShowsUnknown(c, p))

\* C5 witness: A,U, b ,b loaded, then describe("A"): B twice, title unknown
C5_Witness ==
    /\ fileLines = <<LineTwoPrereqs>>
    /\ out.kind = "course"
    /\ out.id = <<"A">>
    /\ out.rows = << [id |-> <<"B">>, title |-> <<>>, known |-> FALSE],
                     [id |-> <<"B">>, title |-> <<>>, known |-> FALSE] >>
    /\ courses[<<"B">>].title = <<>>

(* ------------------------------ C6 ------------------------------------ *)

\* the rows are the titled entries of the catalog, each once, ascending by id
ListsTitledAscending(rows, catalog) ==
    /\ {rows[k].id : k \in 1..Len(rows)} =
          {id \in DOMAIN catalog : catalog[id].title # <<>>}
    /\ \A k \in 1..Len(rows) : rows[k].title = catalog[rows[k].id].title
    /\ \A k \in 1..(Len(rows) - 1) : StrLess(rows[k].id, rows[k + 1].id)

\* C6: listSorted returns exactly the entries with a non-empty title, each
\* once, in strictly ascending order of identifier whatever the order of the
\* lines in the file, and leaves the catalog unchanged.
C6_ListSorted ==
    [][out'.kind = "list" =>
          (courses' = courses /\ ListsTitledAscending(out'.rows, courses))]_vars

\* C6 witness: B's line read before A's line, listed as A then B
C6_Witness ==
    /\ fileLines = <<LineQuoted, LineTitled>>
    /\ out.kind = "list"
    /\ out.rows = << [id |-> <<"A">>, title |-> <<"T">>],
                     [id |-> <<"B">>, title |-> <<"T", ",", "U">>] >>

(* ------------------------------ C8 ------------------------------------ *)

\* a step of the load in which getline delivered a line
ReadsLine ==
    /\ pc = "loading"
    /\ pc' = "loading"
    /\ fileLines' # fileLines

\* the line such a step read, and its 1-indexed number in the file
LineRead == fileLines'[Len(fileLines')]
LineReadNumber == Len(fileLines')

\* C8: a blank line adds no entry, changes none and adds no warning; a line
\* of fewer than 2 fields adds no entry, changes none and adds exactly one
\* warning naming its 1-indexed physical line number; the lines after it are
\* still processed, and the load can only end by returning success.
C8_SkippedLines ==
    [][ /\ (ReadsLine /\ trim(LineRead) = <<>>) =>
              (courses' = courses /\ warnings' = warnings)
        /\ (ReadsLine /\ trim(LineRead) # <<>> /\ Len(parseCSVLine(LineRead)) < 2) =>
              /\ courses' = courses
              /\ warnings' = Append(warnings,
                                    Warning(LineReadNumber, "fewer than 2 fields", <<>>))
        /\ (ReadsLine /\ RecordLine(LineRead)) => LineId(LineRead) \in DOMAIN courses'
        /\ pc = "loading" =>
              \/ pc' = "loading"
              \/ (pc' = "menu" /\ dataLoaded' /\ out'.kind = "loaded")
      ]_vars

\* C8 witness: a blank line, then a one-field line: one warning, for line 2
C8_Witness ==
    /\ fileLines = <<LineBlank, LineOneField>>
    /\ out.kind = "loaded"
    /\ out.rows = << Warning(2, "fewer than 2 fields", <<>>) >>
    /\ courses = EmptyCatalog
    /\ dataLoaded

(* ------------------------------ C9 ------------------------------------ *)

\* what one line read does to the entry with key k that exists before it
KeepsEntry(k) ==
    LET mine == RecordLine(LineRead) /\ LineId(LineRead) = k IN
    /\ k \in DOMAIN courses'
    /\ courses'[k].id = courses[k].id
    /\ ~mine => courses'[k] = courses[k]
    /\ mine =>
          /\ courses'[k].prereqs = courses[k].prereqs \o LinePrereqs(LineRead)
          /\ courses'[k].title =
                (IF LineTitle(LineRead) # <<>> THEN LineTitle(LineRead)
                 ELSE courses[k].title)
          /\ LineTitle(LineRead) = <<>> =>
                warnings' = Append(warnings, Warning(LineReadNumber, "empty title", k))

\* C9: within one load, a later line with the same identifier and an empty
\* title keeps the earlier title, records an "empty title" warning and appends
\* its prerequisites to the existing entry; a placeholder is reused when its
\* defining line arrives; a line that only refers to a course as prerequisite
\* leaves that course's entry as it was.
C9_TitleKept ==
    [][ReadsLine => \A k \in DOMAIN courses : KeepsEntry(k)]_vars

\* C9 witness: a,T then a,,b: A keeps T, gets B, and a warning names line 2
C9_Witness ==
    /\ pc = "loading"
    /\ fileLines = <<LineTitled, LineNoTitle>>
    /\ courses[<<"A">>] = [id |-> <<"A">>, title |-> <<"T">>, prereqs |-> << <<"B">> >>]
    /\ warnings = << Warning(2, "empty title", <<"A">>) >>

(* ------------------------------ C10 ----------------------------------- *)

\* the displays of choices 2 and 3 that come from reading the catalog
CatalogDisplays == {"list", "course", "not found", "empty course ID"}

\* the displays of a step that attempts no load and consults no catalog
NoAttemptDisplays ==
    {"enter a menu option", "invalid option", "file name cannot be empty"}

\* C10: choices 2 and 3 read the catalog only when dataLoaded is true;
\* dataLoaded is true exactly when a load was attempted and the most recent
\* attempted load succeeded; an empty file name or an invalid choice leaves
\* it unchanged; so what a failed load left in the catalog is not displayed
\* before a later load succeeds.
C10_ReadinessFlag ==
    [][ /\ dataLoaded' <=> (lastLoad' = "ok")
        /\ out'.kind \in CatalogDisplays =>
              (dataLoaded /\ dataLoaded' /\ lastLoad' = "ok" /\ courses' = courses)
        /\ out'.kind \in NoAttemptDisplays =>
              (dataLoaded' = dataLoaded /\ lastLoad' = lastLoad /\ courses' = courses)
      ]_vars

\* C10 witness: after a failed load the old entries are still in the catalog,
\* and choice 2 or 3 shows "load data first" instead of them
C10_Witness ==
    /\ lastLoad = "failed"
    /\ courses # EmptyCatalog
    /\ ~dataLoaded
    /\ out.kind = "load data first"

=============================================================================
